---------------------------- MODULE Spec2Model ----------------------------
(***************************************************************************)
(* The session engine of server/sixnimmt.py: Card, Board, Player and       *)
(* Session.  One action per Session method; every action models the whole  *)
(* call, the failing calls included, and records its return value in ret.    *)
(*                                                                         *)
(* Python containers are modelled as follows.  A set is a set.  A dict is  *)
(* the sequence of its items in insertion order (Python dicts keep it).    *)
(* A list is a sequence; Python's index i is the model's index i + 1, and  *)
(* row numbers keep Python's 0-based values.  None is the integer -1,      *)
(* which is neither a player nor a row index.                              *)
(***************************************************************************)
EXTENDS Integers, Sequences, FiniteSets, TLC

(***************************************************************************)
(* Configuration.  The Session fields min_players, max_players,            *)
(* cards_per_player and the Board fields rows, cols are constructor        *)
(* arguments; the model runs a small session.  The deck is scaled with it: *)
(* it holds the cards a full session deals plus Spare more.                *)
(***************************************************************************)
MIN_PLAYERS == 2

NumPlayers == 2

max_players == 2

cards_per_player == 2

rows == 2

cols == 2

Spare == 1

min_players == MIN_PLAYERS

DeckSize == max_players * cards_per_player + rows + Spare

DECK == 1 .. DeckSize

Player == 1 .. NumPlayers

None == 0 - 1

\* sys.maxsize, the no-row value of Board.where: here the largest integer of TLC
maxsize == 2147483647

\* DECK[-1] of the program, 104: Card and the constructor of Session are
\* modelled with it, a session in play with the scaled DECK above
DeckLast == 104

MAX_PLAYERS == 10

CARDS_PER_PLAYER == 10

\* ROWS of the program, the number of rows of the boards Board.where is called on
ROWS == 4

\* tails of the rows and cards handed to Board.where
Tails == {5, 23, 61, 98}

WhereCards == {3, 5, 30, 42, 61, 99, 104}

\* configurations handed to Session(...)
MinChoices == {1, 2, 3, 10, 11}

MaxChoices == {1, 2, 9, 10, 11}

CppChoices == {9, 10, 11}

RowChoices == {4, 5}

VARIABLES
    players,                \* Session.players
    hand,                   \* Player.hand, per player object
    stack,                  \* Player.stack, per player object
    board,                  \* Board.board
    started,                \* Session.started
    smallest_card_player,   \* Session.smallest_card_player
    selected_row,           \* Session.selected_row
    cards_to_play,          \* Session.cards_to_play
    cards_played,           \* Session.cards_played
    progressed,             \* Session.progressed
    ret,                    \* what the last call returned: "True", "False" or "IndexError"
    call,                   \* the last call of a function outside a session, with its result
    SESSIONS,               \* handler.SESSIONS: the identifiers it holds
    token,                  \* the session identifiers issued so far: 1 .. token
    pc,                     \* where the handler task of each connection stands
    running,                \* the task that runs between two suspension points, or None
    accepted,               \* the plays game.play accepted since the last reset, in order
    deleted                 \* the identifiers deleted from SESSIONS, in order

session == <<players, hand, stack, board, started, smallest_card_player,
             selected_row, cards_to_play, cards_played, progressed>>

\* the state of handler.py
server == <<SESSIONS, token, pc, running, accepted, deleted>>

\* what a call of a method of Session leaves alone
outside == <<call, server>>

vars == <<players, hand, stack, board, started, smallest_card_player,
          selected_row, cards_to_play, cards_played, progressed, ret, call,
          SESSIONS, token, pc, running, accepted, deleted>>

----------------------------------------------------------------------------
(* Helpers for the containers. *)

Last(s) == s[Len(s)]

SeqToSet(s) == {s[i] : i \in DOMAIN s}

\* keys of a dict
Keys(d) == {d[i].player : i \in DOMAIN d}

\* d[player] of a dict of cards
Lookup(d, player) == d[CHOOSE i \in DOMAIN d : d[i].player = player].card

SetMin(S) == CHOOSE x \in S : \A y \in S : x <= y

RECURSIVE SetToSeq(_)
SetToSeq(S) == IF S = {} THEN <<>> ELSE <<SetMin(S)>> \o SetToSeq(S \ {SetMin(S)})

\* d[entry.player] = entry: replaces the item of a key the dict has, else appends
DictSet(d, entry) ==
    IF entry.player \in Keys(d)
    THEN [i \in DOMAIN d |-> IF d[i].player = entry.player THEN entry ELSE d[i]]
    ELSE Append(d, entry)

\* the sequences of n distinct elements of S
RECURSIVE InjSeqs(_, _)
InjSeqs(S, n) ==
    IF n = 0 THEN {<<>>}
    ELSE UNION {{<<c>> \o s : s \in InjSeqs(S \ {c}, n - 1)} : c \in S}

----------------------------------------------------------------------------
(* Card *)

\* Card.__post_init__: the assertion on the value
Card_ok(value) == 1 <= value /\ value <= DeckLast

\* Card.score testing the multiples of 11 first
score_11_first(value) ==
    IF value % 11 = 0 THEN 5
    ELSE IF value = 55 THEN 7
    ELSE IF value % 10 = 0 THEN 3
    ELSE IF value % 5 = 0 THEN 2
    ELSE 1

\* Card.score
score(value) ==
    IF value = 55 THEN 7
    ELSE IF value % 11 = 0 THEN 5
    ELSE IF value % 10 = 0 THEN 3
    ELSE IF value % 5 = 0 THEN 2
    ELSE 1

----------------------------------------------------------------------------
(* Player *)

\* Player.play with set.discard in place of set.remove: never fails
Player_play_discard(h, card) == [ok |-> TRUE, hand |-> h \ {card}]

\* Player.play: removes the card from the hand, False when it is not there
Player_play(h, card) ==
    IF card \in h THEN [ok |-> TRUE, hand |-> h \ {card}]
    ELSE [ok |-> FALSE, hand |-> h]

----------------------------------------------------------------------------
(* Board *)

\* Board.smallest_card: min(row[-1] for row in self.board)
smallest_card(b) == SetMin({Last(b[r]) : r \in DOMAIN b})

\* Board._sweep that returns no swept cards
_sweep_drop(b, row, card) ==
    [raised |-> FALSE,
     board |-> [b EXCEPT ![row + 1] = <<card>>],
     position |-> [row |-> row, col |-> 0],
     stack |-> {}]

\* Board._sweep
_sweep(b, row, card) ==
    [raised |-> FALSE,
     board |-> [b EXCEPT ![row + 1] = <<card>>],
     position |-> [row |-> row, col |-> 0],
     stack |-> SeqToSet(b[row + 1])]

\* Board.is_valid
is_valid(row) == 0 <= row /\ row <= rows - 1

\* the for loop of Board.where, from index idx on
RECURSIVE where_loop(_, _, _, _, _)
where_loop(b, card, idx, min_idx, min_diff) ==
    IF idx > Len(b) - 1 THEN min_idx
    ELSE IF card <= Last(b[idx + 1])
         THEN where_loop(b, card, idx + 1, min_idx, min_diff)
         ELSE IF card - Last(b[idx + 1]) < min_diff
              THEN where_loop(b, card, idx + 1, idx, card - Last(b[idx + 1]))
              ELSE where_loop(b, card, idx + 1, min_idx, min_diff)

\* Board.where that takes the row whose tail is nearest to the card, above or
\* below it
where_nearest(b, card) ==
    LET dist(i) == IF card < Last(b[i + 1]) THEN Last(b[i + 1]) - card
                   ELSE card - Last(b[i + 1])
    IN  CHOOSE i \in 0 .. Len(b) - 1 :
            \A j \in 0 .. Len(b) - 1 :
                dist(i) < dist(j) \/ (dist(i) = dist(j) /\ i <= j)

\* Board.where with min_idx starting at row 0 instead of sys.maxsize
where_from_zero(b, card) == where_loop(b, card, 0, 0, maxsize)

\* Board.where
where(b, card) == where_loop(b, card, 0, maxsize, maxsize)

\* Board.place that appends also to a row that holds cols cards
place_no_cap(b, card, row) ==
    IF row # None THEN _sweep(b, row, card)
    ELSE LET r == where(b, card) IN
         IF r > Len(b) - 1
         THEN [raised |-> TRUE, board |-> b,
               position |-> [row |-> r, col |-> 0], stack |-> {}]
         ELSE [raised |-> FALSE,
               board |-> [b EXCEPT ![r + 1] = Append(@, card)],
               position |-> [row |-> r, col |-> Len(b[r + 1])],
               stack |-> {}]

\* Board.place; self.board[row] raises IndexError when where found no row
place(b, card, row) ==
    IF row # None THEN _sweep(b, row, card)
    ELSE LET r == where(b, card) IN
         IF r > Len(b) - 1
         THEN [raised |-> TRUE, board |-> b,
               position |-> [row |-> r, col |-> 0], stack |-> {}]
         ELSE IF Len(b[r + 1]) >= cols THEN _sweep(b, r, card)
         ELSE [raised |-> FALSE,
               board |-> [b EXCEPT ![r + 1] = Append(@, card)],
               position |-> [row |-> r, col |-> Len(b[r + 1])],
               stack |-> {}]

----------------------------------------------------------------------------
(* Session: the predicates *)

\* Session.should_start comparing len(players) <= min_players
should_start_off_by_one ==
    IF Cardinality(players) <= min_players THEN FALSE
    ELSE IF Cardinality(players) > max_players THEN FALSE
    ELSE IF \E player \in players : Cardinality(hand[player]) > 0 THEN FALSE
    ELSE IF \E r \in DOMAIN board : Len(board[r]) > 0 THEN FALSE
    ELSE IF started THEN FALSE
    ELSE TRUE

\* Session.should_start
should_start ==
    IF Cardinality(players) < min_players THEN FALSE
    ELSE IF Cardinality(players) > max_players THEN FALSE
    ELSE IF \E player \in players : Cardinality(hand[player]) > 0 THEN FALSE
    ELSE IF \E r \in DOMAIN board : Len(board[r]) > 0 THEN FALSE
    ELSE IF started THEN FALSE
    ELSE TRUE

\* Session.should_progress without the check of progressed
should_progress_again ==
    IF ~started THEN FALSE
    ELSE IF players # Keys(cards_to_play) THEN FALSE
    ELSE IF Cardinality({Cardinality(hand[player]) : player \in players}) > 1 THEN FALSE
    ELSE IF smallest_card_player # None /\ selected_row = None THEN FALSE
    ELSE TRUE

\* Session.should_progress without its last test, of the selected row
should_progress_no_row ==
    IF ~started THEN FALSE
    ELSE IF progressed THEN FALSE
    ELSE IF players # Keys(cards_to_play) THEN FALSE
    ELSE IF Cardinality({Cardinality(hand[player]) : player \in players}) > 1 THEN FALSE
    ELSE TRUE

\* Session.should_progress
should_progress ==
    IF ~started THEN FALSE
    ELSE IF progressed THEN FALSE
    ELSE IF players # Keys(cards_to_play) THEN FALSE
    ELSE IF Cardinality({Cardinality(hand[player]) : player \in players}) > 1 THEN FALSE
    ELSE IF smallest_card_player # None /\ selected_row = None THEN FALSE
    ELSE TRUE

\* Session.should_end
should_end ==
    IF ~started THEN FALSE
    ELSE IF \E player \in players : Cardinality(hand[player]) > 0 THEN FALSE
    ELSE TRUE

----------------------------------------------------------------------------
(* Session: construction *)

\* Session.__post_init__ with only its first assert
Session_post_init_no_deck(min_p, max_p, cpp, board_rows, last) ==
    MIN_PLAYERS <= min_p /\ min_p <= max_p /\ max_p <= MAX_PLAYERS

\* the two asserts of Session.__post_init__ on a deck that ends in last: TRUE
\* when both pass, FALSE when one raises AssertionError
Session_post_init(min_p, max_p, cpp, board_rows, last) ==
    /\ MIN_PLAYERS <= min_p /\ min_p <= max_p /\ max_p <= MAX_PLAYERS
    /\ max_p * cpp + board_rows <= last

\* host up to its first await: the session is put into SESSIONS under
\* session_id unless its construction raised AssertionError
host_register(sessions, session_id, constructed) ==
    IF constructed THEN sessions \cup {session_id} ELSE sessions

----------------------------------------------------------------------------
(* Session: the methods *)

\* a call that returns False
Fail == ret' = "False" /\ UNCHANGED session

\* the hands after the first loop of Session._deal: round k gives the player at
\* position i of the iteration over self.players the card popped at step
\* (k - 1) * len(players) + i
deal_hands(order, popped) ==
    [player \in DOMAIN hand |->
        IF player \in SeqToSet(order)
        THEN LET i == CHOOSE j \in DOMAIN order : order[j] = player
             IN  hand[player] \cup
                 {popped[(k - 1) * Len(order) + i] : k \in 1 .. cards_per_player}
        ELSE hand[player]]

\* the board after the second loop of Session._deal: place(card, row=row)
RECURSIVE deal_board(_, _, _)
deal_board(b, popped, row) ==
    IF row > rows - 1 THEN b
    ELSE deal_board(place(b, popped[row + 1], row).board, popped, row + 1)

\* Session._deal that deals the rows from the cards it dealt to the hands
_deal_reuse(popped) ==
    LET order == SetToSeq(players)
        n     == Len(order) * cards_per_player
    IN  /\ hand' = deal_hands(order, SubSeq(popped, 1, n))
        /\ board' = deal_board(board, SubSeq(popped, 1, rows), 0)

\* Session._deal.  random.sample(DECK, len(DECK)) is any permutation of the
\* deck and the loops pop len(players) * cards_per_player + rows cards from
\* its end: popped is those cards in the order they are popped.
_deal(popped) ==
    LET order == SetToSeq(players)
        n     == Len(order) * cards_per_player
    IN  /\ hand' = deal_hands(order, SubSeq(popped, 1, n))
        /\ board' = deal_board(board, SubSeq(popped, n + 1, n + rows), 0)

\* Session.add without the test of len(self.players) against max_players
add_no_limit(player) ==
    IF started THEN Fail
    ELSE /\ players' = players \cup {player}
         /\ ret' = "True"
         /\ UNCHANGED <<hand, stack, board, started, smallest_card_player,
                        selected_row, cards_to_play, cards_played, progressed>>

\* Session.add
add(player) ==
    IF started THEN Fail
    ELSE IF Cardinality(players) >= max_players THEN Fail
    ELSE /\ players' = players \cup {player}
         /\ ret' = "True"
         /\ UNCHANGED <<hand, stack, board, started, smallest_card_player,
                        selected_row, cards_to_play, cards_played, progressed>>

\* Session.remove
remove(player) ==
    IF player \notin players THEN Fail
    ELSE /\ players' = players \ {player}
         /\ ret' = "True"
         /\ UNCHANGED <<hand, stack, board, started, smallest_card_player,
                        selected_row, cards_to_play, cards_played, progressed>>

\* Session.start
start ==
    IF ~should_start THEN Fail
    ELSE /\ \E popped \in InjSeqs(DECK, Cardinality(players) * cards_per_player + rows) :
                _deal(popped)
         /\ started' = TRUE
         /\ ret' = "True"
         /\ UNCHANGED <<players, stack, smallest_card_player, selected_row,
                        cards_to_play, cards_played, progressed>>

\* the two tests of Session.play without the second: the first player below
\* the smallest row tail keeps the turn
track_smallest_first_only(ctp, player, card) ==
    IF smallest_card_player = None /\ card < smallest_card(board)
    THEN player ELSE smallest_card_player

\* the two tests at the end of Session.play, on cards_to_play ctp that already
\* holds the new card: the value smallest_card_player is left with
track_smallest(ctp, player, card) ==
    LET scp1 == IF smallest_card_player = None /\ card < smallest_card(board)
                THEN player ELSE smallest_card_player
        scp2 == IF scp1 # None /\ card < Lookup(ctp, scp1)
                THEN player ELSE scp1
    IN  scp2

\* Session.play that calls Player.play before it checks cards_to_play
play_check_late(player, card) ==
    IF ~started THEN Fail
    ELSE IF progressed THEN Fail
    ELSE IF ~Player_play(hand[player], card).ok THEN Fail
    ELSE IF player \in Keys(cards_to_play)
         THEN /\ hand' = [hand EXCEPT ![player] = Player_play(@, card).hand]
              /\ ret' = "False"
              /\ UNCHANGED <<players, stack, board, started, smallest_card_player,
                             selected_row, cards_to_play, cards_played, progressed>>
    ELSE LET ctp  == DictSet(cards_to_play, [player |-> player, card |-> card])
         IN  /\ hand' = [hand EXCEPT ![player] = Player_play(@, card).hand]
             /\ cards_to_play' = ctp
             /\ smallest_card_player' = track_smallest(ctp, player, card)
             /\ ret' = "True"
             /\ UNCHANGED <<players, stack, board, started, selected_row,
                            cards_played, progressed>>

\* Session.play.  board.smallest_card reads row[-1] of every row: no row is
\* empty once the session has started.
play(player, card) ==
    IF ~started THEN Fail
    ELSE IF progressed THEN Fail
    ELSE IF player \in Keys(cards_to_play) THEN Fail
    ELSE IF ~Player_play(hand[player], card).ok THEN Fail
    ELSE LET ctp  == DictSet(cards_to_play, [player |-> player, card |-> card])
         IN  /\ hand' = [hand EXCEPT ![player] = Player_play(@, card).hand]
             /\ cards_to_play' = ctp
             /\ smallest_card_player' = track_smallest(ctp, player, card)
             /\ ret' = "True"
             /\ UNCHANGED <<players, stack, board, started, selected_row,
                            cards_played, progressed>>

\* Session.select
select(player, row) ==
    IF ~should_progress THEN Fail
    ELSE IF player # smallest_card_player THEN Fail
    ELSE IF selected_row # None THEN Fail
    ELSE IF ~is_valid(row) THEN Fail
    ELSE /\ selected_row' = row
         /\ ret' = "True"
         /\ UNCHANGED <<players, hand, stack, board, started,
                        smallest_card_player, cards_to_play, cards_played,
                        progressed>>

\* no sort: the items in submission order
unsorted(items) == items

\* sorted(items, key=lambda m: m[1]): a stable sort by card
RECURSIVE sorted(_)
sorted(items) ==
    IF items = <<>> THEN <<>>
    ELSE LET i == CHOOSE j \in DOMAIN items :
                      /\ \A k \in DOMAIN items : items[j].card <= items[k].card
                      /\ \A k \in 1 .. j - 1 : items[k].card # items[j].card
             rest == [k \in 1 .. Len(items) - 1 |->
                          IF k < i THEN items[k] ELSE items[k + 1]]
         IN  <<items[i]>> \o sorted(rest)

\* the for loop of Session.progress, from index idx on
RECURSIVE progress_loop(_, _, _, _, _, _)
progress_loop(items, idx, b, st, cp, sel) ==
    IF idx > Len(items) - 1
    THEN [raised |-> FALSE, board |-> b, stack |-> st, cards_played |-> cp]
    ELSE LET item == items[idx + 1]
             row  == IF idx = 0 THEN sel ELSE None
             r    == place(b, item.card, row)
         IN  IF r.raised
             THEN [raised |-> TRUE, board |-> b, stack |-> st, cards_played |-> cp]
             ELSE progress_loop(items, idx + 1, r.board,
                      [st EXCEPT ![item.player] = @ \cup r.stack],
                      DictSet(cp, [player |-> item.player, card |-> item.card,
                                   position |-> r.position]),
                      sel)

\* the effect of Session.progress past its guard
resolve(items, b, st, cp, sel) == progress_loop(sorted(items), 0, b, st, cp, sel)

\* Session.progress
progress ==
    IF ~should_progress THEN Fail
    ELSE LET r == resolve(cards_to_play, board, stack, cards_played, selected_row)
         IN  /\ board' = r.board
             /\ stack' = r.stack
             /\ cards_played' = r.cards_played
             /\ progressed' = IF r.raised THEN progressed ELSE TRUE
             /\ ret' = IF r.raised THEN "IndexError" ELSE "True"
             /\ UNCHANGED <<players, hand, started, smallest_card_player,
                            selected_row, cards_to_play>>

\* Session.reset that keeps the submitted cards of the turn
reset_keep_plays ==
    IF ~progressed THEN Fail
    ELSE /\ smallest_card_player' = None
         /\ selected_row' = None
         /\ cards_played' = <<>>
         /\ progressed' = FALSE
         /\ ret' = "True"
         /\ UNCHANGED <<players, hand, stack, board, started, cards_to_play>>

\* Session.reset
reset ==
    IF ~progressed THEN Fail
    ELSE /\ smallest_card_player' = None
         /\ selected_row' = None
         /\ cards_to_play' = <<>>
         /\ cards_played' = <<>>
         /\ progressed' = FALSE
         /\ ret' = "True"
         /\ UNCHANGED <<players, hand, stack, board, started>>

----------------------------------------------------------------------------
(* The session as a state machine: any call, with any arguments, at any time *)

\* no connection has been accepted
NoServer ==
    /\ SESSIONS = {}
    /\ token = 0
    /\ pc = [c \in Player |-> "connect"]
    /\ running = None
    /\ accepted = <<>>
    /\ deleted = <<>>

Init ==
    /\ players = {}
    /\ hand = [player \in Player |-> {}]
    /\ stack = [player \in Player |-> {}]
    /\ board = [r \in 1 .. rows |-> <<>>]
    /\ started = FALSE
    /\ smallest_card_player = None
    /\ selected_row = None
    /\ cards_to_play = <<>>
    /\ cards_played = <<>>
    /\ progressed = FALSE
    /\ ret = "True"
    /\ call = [fn |-> "none"]
    /\ NoServer

Add == \E player \in Player : add(player) /\ UNCHANGED outside

Remove == \E player \in Player : remove(player) /\ UNCHANGED outside

Start == start /\ UNCHANGED outside

Play == \E player \in Player, card \in DECK : play(player, card) /\ UNCHANGED outside

Select ==
    \E player \in Player, row \in (0 - 1) .. rows : select(player, row) /\ UNCHANGED outside

Progress == progress /\ UNCHANGED outside

Reset == reset /\ UNCHANGED outside

Next == Add \/ Remove \/ Start \/ Play \/ Select \/ Progress \/ Reset

Spec == Init /\ [][Next]_vars

----------------------------------------------------------------------------
(* Vocabulary of the properties *)

BoardCards == UNION {SeqToSet(board[r]) : r \in DOMAIN board}

HandCards(P) == UNION {hand[player] : player \in P}

StackCards(P) == UNION {stack[player] : player \in P}

\* the cards submitted this turn and not yet placed on the board
Pending == IF progressed THEN {} ELSE {cards_to_play[i].card : i \in DOMAIN cards_to_play}

\* every current player has submitted a card this turn and nobody else has
AllSubmitted == players = Keys(cards_to_play)

----------------------------------------------------------------------------
(* C1 *)

\* what C1 asks of the state of a call select(player, row): a session in
\* play whose current players have all submitted, player is the
\* smallest_card_player and no row is selected yet
C1_Ready(player) ==
    /\ started /\ ~progressed
    /\ Cardinality(players) >= min_players
    /\ AllSubmitted
    /\ \A q \in players : Cardinality(hand[q]) = Cardinality(hand[player])
    /\ player \in players
    /\ smallest_card_player = player
    /\ selected_row = None

\* C1: when every current player has submitted, a smallest_card_player is set
\* and no row is selected, select(p, row) by that player with a valid row
\* returns True and records selected_row = row, and progress() can then succeed.
C1_SelectSucceeds ==
    \A player \in Player, row \in 0 .. rows - 1 :
        C1_Ready(player) =>
            ENABLED (/\ select(player, row)
                     /\ ret' = "True"
                     /\ selected_row' = row
                     /\ should_progress')

----------------------------------------------------------------------------
(* C2 *)

\* a game played by the rules: nobody leaves, and a call of play, select,
\* progress or reset that can succeed is eventually made
GameNext == Add \/ Start \/ Play \/ Select \/ Progress \/ Reset

Turn == (Play \/ Select \/ Progress \/ Reset) /\ ret' = "True"

SpecGame == Init /\ [][GameNext]_vars /\ WF_vars(Turn)

\* C2: a started game in which the players keep submitting held cards,
\* selecting a row when required and resetting after each resolved turn
\* reaches should_end.
C2_Terminates == started ~> should_end

----------------------------------------------------------------------------
(* C3 *)

RECURSIVE SumCard(_, _)
SumCard(f, S) ==
    IF S = {} THEN 0
    ELSE LET x == CHOOSE y \in S : TRUE
         IN  Cardinality(f[x]) + SumCard(f, S \ {x})

RECURSIVE SumLen(_, _)
SumLen(f, S) ==
    IF S = {} THEN 0
    ELSE LET x == CHOOSE y \in S : TRUE
         IN  Len(f[x]) + SumLen(f, S \ {x})

\* the cards the session holds: on the board, in the hand or the stack of any
\* player object (a member or not), or submitted and not yet placed
Held == BoardCards \cup HandCards(Player) \cup StackCards(Player) \cup Pending

\* the number of places that hold a card
HeldCount ==
    SumLen(board, DOMAIN board) + SumCard(hand, Player) + SumCard(stack, Player)
        + Cardinality(Pending)

\* C3 as stated: once started, the cards on the board, in the current
\* players' hands and in their stacks are together the full deck.
C3_FullDeck ==
    started => BoardCards \cup HandCards(players) \cup StackCards(players) = DECK

\* C3 as amended: once started, the cards on the board, in the hands and
\* stacks of the players dealt in (members or not) and the cards submitted
\* but not yet placed are pairwise distinct, and together they are always the
\* len(players) * cards_per_player + rows cards that start() dealt.
C3_Conservation ==
    /\ [](started => (Held \subseteq DECK /\ HeldCount = Cardinality(Held)))
    /\ [][/\ started => Held' = Held
          /\ (~started /\ started') =>
                Cardinality(Held') = Cardinality(players) * cards_per_player + rows]_vars

\* a later turn is under way: a row was swept into a stack and a card is pending
C3_Witness == started /\ StackCards(Player) # {} /\ Pending # {}

----------------------------------------------------------------------------
(* C4 *)

\* C4: a call that returns False leaves the whole session state unchanged.
C4_FailureKeepsState == [][ret' = "False" => UNCHANGED session]_vars

\* a call failed in the middle of a turn
C4_Witness == ret = "False" /\ started /\ cards_to_play # <<>> /\ ~progressed

----------------------------------------------------------------------------
(* C5 *)

\* C5: should_progress is true exactly when the session is started, the turn
\* is not progressed, every current player has submitted exactly one card,
\* the current players hold equally many cards, and a row is selected if a
\* smallest_card_player exists.
C5_ReadyIff ==
    should_progress <=>
        /\ started /\ ~progressed
        /\ \A player \in players :
               Cardinality({i \in DOMAIN cards_to_play :
                               cards_to_play[i].player = player}) = 1
        /\ \A p, q \in players : Cardinality(hand[p]) = Cardinality(hand[q])
        /\ smallest_card_player # None => selected_row # None

----------------------------------------------------------------------------
(* C6 *)

\* C6: should_progress is false while a current player has not submitted, and
\* false from a successful progress() until the next successful reset():
\* progress() sets progressed, only reset() clears it, and should_progress is
\* false while it is set.
C6_NotReady ==
    /\ []((\E player \in players : player \notin Keys(cards_to_play))
              => ~should_progress)
    /\ [](progressed => ~should_progress)
    /\ [][/\ (progress /\ ret' = "True") => progressed'
          /\ (progressed /\ ~progressed') => (reset /\ ret' = "True")]_vars

\* a resolved turn that has not been reset: all that keeps should_progress
\* false is progressed
C6_Witness == progressed /\ AllSubmitted /\ players # {} /\ smallest_card_player = None

----------------------------------------------------------------------------
(* C7 *)

\* the orders in which the items of a dict can have been inserted
Orders(items) == InjSeqs(SeqToSet(items), Len(items))

Ascending(cp) == \A i, j \in DOMAIN cp : i < j => cp[i].card < cp[j].card

\* C7: progress() places the cards in ascending order of value, and the
\* board, the stacks and cards_played it leaves are those of every other
\* submission order of the same cards_to_play; and once all current players
\* have submitted, the resolution is the same for every submission order
\* whichever row is selected.
C7_OrderIndependent ==
    /\ []((started /\ ~progressed /\ AllSubmitted) =>
             \A sel \in {None} \cup (0 .. rows - 1), items \in Orders(cards_to_play) :
                 resolve(items, board, stack, cards_played, sel)
                     = resolve(cards_to_play, board, stack, cards_played, sel))
    /\ [][(progress /\ ret' = "True") =>
             /\ Ascending(cards_played')
             /\ \A items \in Orders(cards_to_play) :
                   LET r == resolve(items, board, stack, cards_played, selected_row)
                   IN  /\ ~r.raised
                       /\ board' = r.board
                       /\ stack' = r.stack
                       /\ cards_played' = r.cards_played]_vars

\* a turn resolved whose cards were submitted in descending order
C7_Witness ==
    /\ progressed
    /\ Len(cards_to_play) >= 2
    /\ cards_to_play[1].card > cards_to_play[2].card
    /\ Len(cards_played) = Len(cards_to_play)

----------------------------------------------------------------------------
(* C8 *)

\* C8: right after a successful start() every player holds cards_per_player
\* cards, every row holds one card, no two hands share a card and no hand
\* holds a card of the board.
C8_Dealt ==
    ~ENABLED (/\ start
              /\ ret' = "True"
              /\ ~(/\ \A player \in players' :
                         Cardinality(hand'[player]) = cards_per_player
                   /\ \A r \in DOMAIN board' : Len(board'[r]) = 1
                   /\ \A p, q \in players' : p # q => hand'[p] \cap hand'[q] = {}
                   /\ \A player \in players' : hand'[player] \cap BoardCards' = {}))

\* the session has just been dealt
C8_Witness ==
    /\ started /\ cards_to_play = <<>> /\ StackCards(Player) = {}
    /\ \A player \in players : Cardinality(hand[player]) = cards_per_player
    /\ Cardinality(players) >= min_players

----------------------------------------------------------------------------
(* C9 *)

\* C9: start() returns True exactly when the number of players is within
\* [min_players, max_players], the session is not started, no player holds a
\* card and every row is empty; it then sets started, and started is never
\* cleared, so start() succeeds at most once.
C9_StartOnce ==
    /\ [](IF /\ min_players <= Cardinality(players)
             /\ Cardinality(players) <= max_players
             /\ ~started
             /\ \A player \in players : hand[player] = {}
             /\ \A r \in DOMAIN board : board[r] = <<>>
          THEN /\ ENABLED (start /\ ret' = "True")
               /\ ~ENABLED (start /\ ~(ret' = "True" /\ started'))
          ELSE ENABLED (start /\ ret' = "False"))
    /\ [][started => started']_vars

\* start() has succeeded and a later call of it has failed
C9_Witness == started /\ ret = "False" /\ Cardinality(players) >= min_players

----------------------------------------------------------------------------
(* C10 *)

\* C10: play(player, card) returns True exactly when the session is started,
\* the turn is not progressed, the player has no entry in cards_to_play and
\* holds the card; it then removes that card, and nothing else, from the
\* player's hand and records it as cards_to_play[player]; no player has two
\* entries in cards_to_play.
C10_Play ==
    /\ Cardinality(Keys(cards_to_play)) = Len(cards_to_play)
    /\ \A player \in Player, card \in DECK :
          IF /\ started /\ ~progressed
             /\ player \notin Keys(cards_to_play)
             /\ card \in hand[player]
          THEN ENABLED (/\ play(player, card)
                        /\ ret' = "True"
                        /\ hand' = [hand EXCEPT ![player] = @ \ {card}]
                        /\ cards_to_play' =
                              Append(cards_to_play, [player |-> player, card |-> card]))
          ELSE ENABLED (play(player, card) /\ ret' = "False")

\* every player has submitted a card of the second turn
C10_Witness ==
    /\ started /\ ~progressed /\ AllSubmitted
    /\ Cardinality(players) >= min_players
    /\ \A player \in players : Cardinality(hand[player]) < cards_per_player - 1

----------------------------------------------------------------------------
(* handler.py: one task per connection on the event loop.  A task runs from
   one suspension point (awaiting a message, a send, a close) to the next;
   between two of them no other task runs.  The steps of play, progress and
   the check of should_end in handle are separate steps of the running task,
   so that the absence of a suspension point between them is checked and not
   assumed.  One session object exists at a time, its identifier is token:
   secrets.token_urlsafe is taken to return a fresh identifier. *)

MaxSessions == 2

\* the handler imports Game from sixnimmt, which names the class Session, and
\* reads game.lowest_card_player, which Session names smallest_card_player
lowest_card_player == smallest_card_player

\* where a task stands when it is in no session
Outside == {"connect", "left", "notfound", "refused", "KeyError"}

\* leave that never deletes the session
leave_keep(c) ==
    /\ players' = players \ {c}
    /\ pc' = [pc EXCEPT ![c] = "left"]
    /\ running' = None
    /\ UNCHANGED <<hand, stack, board, started, smallest_card_player, selected_row,
                   cards_to_play, cards_played, progressed, ret, call, token,
                   accepted, SESSIONS, deleted>>

\* leave, which the finally of host and join calls: set.remove and del raise
\* KeyError on a missing element
leave(c) ==
    /\ running' = None
    /\ UNCHANGED <<hand, stack, board, started, smallest_card_player, selected_row,
                   cards_to_play, cards_played, progressed, ret, call, token, accepted>>
    /\ IF c \notin players
       THEN /\ pc' = [pc EXCEPT ![c] = "KeyError"]
            /\ UNCHANGED <<players, SESSIONS, deleted>>
       ELSE /\ players' = players \ {c}
            /\ IF players \ {c} # {}
               THEN /\ pc' = [pc EXCEPT ![c] = "left"]
                    /\ UNCHANGED <<SESSIONS, deleted>>
               ELSE IF token \notin SESSIONS
               THEN /\ pc' = [pc EXCEPT ![c] = "KeyError"]
                    /\ UNCHANGED <<SESSIONS, deleted>>
               ELSE /\ SESSIONS' = SESSIONS \ {token}
                    /\ deleted' = Append(deleted, token)
                    /\ pc' = [pc EXCEPT ![c] = "left"]

\* host up to await _send: Game(session_id), game.add(player),
\* SESSIONS[session_id] = game
host(c) ==
    /\ pc[c] = "connect" /\ running = None
    /\ token < MaxSessions
    /\ \A d \in Player : pc[d] \in Outside
    /\ LET constructed == Session_post_init(min_players, max_players,
                                            cards_per_player, rows, DeckSize)
       IN  /\ SESSIONS' = host_register(SESSIONS, token + 1, constructed)
           /\ IF constructed
              THEN /\ token' = token + 1
                   /\ players' = {c}
                   /\ board' = [r \in 1 .. rows |-> <<>>]
                   /\ started' = FALSE
                   /\ smallest_card_player' = None
                   /\ selected_row' = None
                   /\ cards_to_play' = <<>>
                   /\ cards_played' = <<>>
                   /\ progressed' = FALSE
                   /\ ret' = "True"
                   /\ accepted' = <<>>
                   /\ pc' = [pc EXCEPT ![c] = "info_host"]
              ELSE /\ pc' = [pc EXCEPT ![c] = "refused"]
                   /\ UNCHANGED <<players, board, started, smallest_card_player,
                                  selected_row, cards_to_play, cards_played,
                                  progressed, ret, token, accepted>>
    /\ UNCHANGED <<hand, stack, call, running, deleted>>

\* join up to its first await: the lookup in SESSIONS and game.add(player)
join(c, session_id) ==
    /\ pc[c] = "connect" /\ running = None
    /\ IF session_id \notin SESSIONS
       THEN /\ pc' = [pc EXCEPT ![c] = "notfound"]
            /\ UNCHANGED <<session, ret>>
       ELSE /\ add(c)
            /\ pc' = [pc EXCEPT ![c] = IF ret' = "True" THEN "info_join" ELSE "refused"]
    /\ UNCHANGED <<call, SESSIONS, token, running, accepted, deleted>>

\* await _send of the info message returns, or raises because the connection
\* is closed: in host it is inside the try whose finally calls leave, in join
\* it is before the try
info_sent(c, ok) ==
    /\ pc[c] \in {"info_host", "info_join"} /\ running = None
    /\ IF ok
       THEN /\ pc' = [pc EXCEPT ![c] = "handle"]
            /\ UNCHANGED <<session, ret, call, SESSIONS, token, running, accepted, deleted>>
       ELSE IF pc[c] = "info_host"
       THEN leave(c)
       ELSE /\ pc' = [pc EXCEPT ![c] = "ghost"]
            /\ UNCHANGED <<session, ret, call, SESSIONS, token, running, accepted, deleted>>

\* the connection closes while handle awaits a message: the loop ends
recv_closed(c) ==
    /\ pc[c] = "handle" /\ running = None
    /\ leave(c)

\* a message that is no JSON or no known event: await _error
recv_invalid(c) ==
    /\ pc[c] = "handle" /\ running = None
    /\ pc' = [pc EXCEPT ![c] = "error"]
    /\ UNCHANGED <<session, ret, call, SESSIONS, token, running, accepted, deleted>>

\* handler.start up to its first await
handler_start(c) ==
    /\ pc[c] = "handle" /\ running = None
    /\ start
    /\ pc' = [pc EXCEPT ![c] = IF ret' = "True" THEN "deal" ELSE "error"]
    /\ UNCHANGED <<call, SESSIONS, token, running, accepted, deleted>>

\* Card(card) in handle, then handler.play up to game.play and its broadcast
handler_play(c, card) ==
    /\ pc[c] = "handle" /\ running = None
    /\ IF ~Card_ok(card)
       THEN leave(c)
       ELSE /\ play(c, card)
            /\ IF ret' = "True"
               THEN /\ pc' = [pc EXCEPT ![c] = "played"]
                    /\ running' = c
                    /\ accepted' = Append(accepted, [player |-> c, card |-> card])
               ELSE /\ pc' = [pc EXCEPT ![c] = "error"]
                    /\ UNCHANGED <<running, accepted>>
            /\ UNCHANGED <<call, SESSIONS, token, deleted>>

\* handler.play that suspends at await progress(game, player)
handler_play_ready_suspends(c) ==
    /\ pc[c] = "played" /\ running = c
    /\ IF ~should_progress
       THEN pc' = [pc EXCEPT ![c] = "check"] /\ UNCHANGED running
       ELSE IF lowest_card_player # None
       THEN pc' = [pc EXCEPT ![c] = "check"] /\ UNCHANGED running
       ELSE pc' = [pc EXCEPT ![c] = "progress"] /\ running' = None
    /\ UNCHANGED <<session, ret, call, SESSIONS, token, accepted, deleted>>

\* handler.play after game.play succeeded: the test of should_progress, the
\* broadcasts, and await progress(game, player), which enters the coroutine
\* without suspending
handler_play_ready(c) ==
    /\ pc[c] = "played" /\ running = c
    /\ IF ~should_progress
       THEN pc' = [pc EXCEPT ![c] = "check"] /\ UNCHANGED running
       ELSE IF lowest_card_player # None
       THEN pc' = [pc EXCEPT ![c] = "check"] /\ UNCHANGED running
       ELSE pc' = [pc EXCEPT ![c] = "progress"] /\ UNCHANGED running
    /\ UNCHANGED <<session, ret, call, SESSIONS, token, accepted, deleted>>

\* handler.select up to await progress(game, player)
handler_select(c, row) ==
    /\ pc[c] = "handle" /\ running = None
    /\ select(c, row)
    /\ IF ret' = "True"
       THEN pc' = [pc EXCEPT ![c] = "progress"] /\ running' = c
       ELSE pc' = [pc EXCEPT ![c] = "error"] /\ UNCHANGED running
    /\ UNCHANGED <<call, SESSIONS, token, accepted, deleted>>

\* handler.progress: game.progress() and the broadcasts of the placed cards
handler_progress(c) ==
    /\ pc[c] = "progress" /\ running = c
    /\ progress
    /\ pc' = [pc EXCEPT ![c] = IF ret' = "True" THEN "resolved" ELSE "check"]
    /\ UNCHANGED <<call, SESSIONS, token, running, accepted, deleted>>

\* handler.progress after game.progress() succeeded: the connections are
\* closed one await after the other when the game has ended, else game.reset()
handler_resolved(c) ==
    /\ pc[c] = "resolved" /\ running = c
    /\ IF should_end
       THEN /\ pc' = [pc EXCEPT ![c] = "closing"]
            /\ running' = None
            /\ UNCHANGED <<session, ret, accepted>>
       ELSE /\ reset
            /\ accepted' = IF ret' = "True" THEN <<>> ELSE accepted
            /\ pc' = [pc EXCEPT ![c] = "check"]
            /\ UNCHANGED running
    /\ UNCHANGED <<call, SESSIONS, token, deleted>>

\* the end of the loop body of handle: break, and so leave, when should_end
handle_check(c) ==
    /\ pc[c] = "check" /\ running = c
    /\ IF should_end
       THEN leave(c)
       ELSE /\ pc' = [pc EXCEPT ![c] = "handle"]
            /\ running' = None
            /\ UNCHANGED <<session, ret, call, SESSIONS, token, accepted, deleted>>

\* an await of _error, of the _send loop of start or of the close loop of
\* progress returns, or raises (the connection is closed, or game.players
\* changed size under the loop): the exception ends handle and leave is called
sent(c, ok) ==
    /\ pc[c] \in {"error", "deal", "closing"} /\ running = None
    /\ IF ok
       THEN /\ pc' = [pc EXCEPT ![c] = "check"]
            /\ running' = c
            /\ UNCHANGED <<session, ret, call, SESSIONS, token, accepted, deleted>>
       ELSE leave(c)

ServerInit == Init

ServerNext ==
    \E c \in Player :
        \/ host(c)
        \/ \E session_id \in 1 .. MaxSessions : join(c, session_id)
        \/ \E ok \in BOOLEAN : info_sent(c, ok)
        \/ recv_closed(c)
        \/ recv_invalid(c)
        \/ handler_start(c)
        \/ \E card \in DECK \cup {DeckLast + 1} : handler_play(c, card)
        \/ handler_play_ready(c)
        \/ \E row \in (0 - 1) .. rows : handler_select(c, row)
        \/ handler_progress(c)
        \/ handler_resolved(c)
        \/ handle_check(c)
        \/ \E ok \in BOOLEAN : sent(c, ok)

SpecServer == ServerInit /\ [][ServerNext]_vars

----------------------------------------------------------------------------
(* C11 *)

\* a session whose players may leave at any time (handler.leave takes the
\* player out of players, as Session.remove does); a player who has left makes
\* no further call
MemberPlay ==
    \E player \in players, card \in DECK : play(player, card) /\ UNCHANGED outside

LeaveNext == Add \/ Remove \/ Start \/ MemberPlay \/ Select \/ Progress \/ Reset

SpecLeave == Init /\ [][LeaveNext]_vars

\* the players still in the session have all submitted, and a row has been
\* selected if one is required
C11_Submitted ==
    /\ started /\ ~progressed
    /\ players # {}
    /\ players \subseteq Keys(cards_to_play)
    /\ smallest_card_player # None => selected_row # None

\* C11: also after a player was removed in the middle of a turn, once the
\* remaining players have submitted (and the required row is selected)
\* should_progress is true: the turn resolves.
C11_Completes == C11_Submitted => should_progress

\* a turn that holds the card of a player who has left
C11_Blocked == started /\ ~progressed /\ Keys(cards_to_play) \ players # {}

\* such a turn is never ready
C11_BlockedNotReady == C11_Blocked => ~should_progress

\* and no call ends it
C11_BlockedForever == [][C11_Blocked => C11_Blocked']_vars

----------------------------------------------------------------------------
(* C15 *)

\* C15: reset succeeds exactly when progressed; it then clears
\* smallest_card_player, selected_row, cards_to_play, cards_played and
\* progressed and leaves started, players, hands, stacks and board as they were.
C15_Reset ==
    IF progressed
    THEN ENABLED (/\ reset
                  /\ ret' = "True"
                  /\ smallest_card_player' = None
                  /\ selected_row' = None
                  /\ cards_to_play' = <<>>
                  /\ cards_played' = <<>>
                  /\ progressed' = FALSE
                  /\ started' = started
                  /\ players' = players
                  /\ hand' = hand
                  /\ stack' = stack
                  /\ board' = board)
    ELSE ENABLED (reset /\ ret' = "False" /\ UNCHANGED session)

\* a turn has been resolved and reset: the hands are one card short and the
\* turn-scoped fields are empty again
C15_Witness ==
    /\ started /\ ~progressed
    /\ players # {}
    /\ \A player \in players : Cardinality(hand[player]) = cards_per_player - 1
    /\ cards_to_play = <<>> /\ cards_played = <<>>
    /\ ret = "True"

----------------------------------------------------------------------------
(* C16 *)

\* should_end is started with every hand of a current player empty
C16_Iff ==
    should_end <=> (started /\ \A player \in players : hand[player] = {})

\* no call takes the session out of should_end
C16_Stays == [][should_end => should_end']_vars

\* no play succeeds once should_end holds
C16_NoPlay ==
    should_end =>
        \A player \in Player, card \in DECK :
            ~ENABLED (play(player, card) /\ ret' = "True")

\* C16: should_end is true exactly when the session is started and every
\* player's hand is empty; once true it stays true whatever is called, and no
\* later play succeeds.
C16_Ended == []C16_Iff /\ C16_Stays /\ []C16_NoPlay

----------------------------------------------------------------------------
(* C19 *)

\* the submitted cards of the turn
Submitted == {cards_to_play[i].card : i \in DOMAIN cards_to_play}

\* C19: while a turn collects cards, smallest_card_player is none if no
\* submitted card is below the smallest row tail, and otherwise the player who
\* submitted the smallest card of the turn, whatever the order of submission.
C19_Smallest ==
    (started /\ ~progressed) =>
        IF \A c \in Submitted : ~(c < smallest_card(board))
        THEN smallest_card_player = None
        ELSE /\ smallest_card_player \in Keys(cards_to_play)
             /\ Lookup(cards_to_play, smallest_card_player) = SetMin(Submitted)

\* the player with the smallest card submitted last, after a player whose card
\* was also below the smallest row tail
C19_Witness ==
    /\ started /\ ~progressed
    /\ Len(cards_to_play) >= 2
    /\ \A c \in Submitted : c < smallest_card(board)
    /\ smallest_card_player = cards_to_play[Len(cards_to_play)].player

\* only a later card is below the smallest row tail, and it is not the last
C19_WitnessNone ==
    /\ started /\ ~progressed
    /\ Len(cards_to_play) >= 2
    /\ \A c \in Submitted : ~(c < smallest_card(board))
    /\ smallest_card_player = None

----------------------------------------------------------------------------
(* Membership of a session that one more player than it admits tries to enter:
   add, remove and start, called by any of them at any time *)

Candidate == 1 .. NumPlayers + 1

LobbyInit ==
    /\ players = {}
    /\ hand = [player \in Candidate |-> {}]
    /\ stack = [player \in Candidate |-> {}]
    /\ board = [r \in 1 .. rows |-> <<>>]
    /\ started = FALSE
    /\ smallest_card_player = None
    /\ selected_row = None
    /\ cards_to_play = <<>>
    /\ cards_played = <<>>
    /\ progressed = FALSE
    /\ ret = "True"
    /\ call = [fn |-> "none"]
    /\ NoServer

LobbyAdd == \E player \in Candidate : add(player) /\ UNCHANGED outside

LobbyRemove == \E player \in Candidate : remove(player) /\ UNCHANGED outside

LobbyNext == LobbyAdd \/ LobbyRemove \/ Start

SpecLobby == LobbyInit /\ [][LobbyNext]_vars

----------------------------------------------------------------------------
(* C12 *)

\* where a task stands between its game.play and the end of the loop body
Chain == {"played", "progress", "resolved", "check"}

\* smallest_card_player after the calls of plays from the i-th on, made one
\* after the other on a turn that holds the earlier ones and has scp
RECURSIVE serial_smallest(_, _, _)
serial_smallest(plays, i, scp) ==
    IF i > Len(plays) THEN scp
    ELSE LET player == plays[i].player
             card   == plays[i].card
             scp1   == IF scp = None /\ card < smallest_card(board)
                       THEN player ELSE scp
             scp2   == IF scp1 # None /\ card < Lookup(SubSeq(plays, 1, i), scp1)
                       THEN player ELSE scp1
         IN  serial_smallest(plays, i + 1, scp2)

\* the turn holds what the accepted plays give when made one after the other,
\* and a task between its play and the end of its loop body is the running one
C12_State ==
    /\ cards_to_play = accepted
    /\ (accepted # <<>> /\ ~progressed) =>
          smallest_card_player = serial_smallest(accepted, 1, None)
    /\ \A c \in Player : pc[c] \in Chain => running = c

\* while a task is between its play and the end of its loop body no other
\* task moves
C12_Step ==
    \A c \in Player :
        pc[c] \in Chain => \A d \in Player \ {c} : pc'[d] = pc[d]

\* C12: with one task per player interleaving only at suspension points, the
\* plays have the effect of a serial run (no submission lost,
\* smallest_card_player that of the serial run), and no other task runs
\* between the play that completes a turn and the progress()/reset() that
\* resolves it.
C12_Serial == []C12_State /\ [][C12_Step]_vars

\* the task whose play completed the turn has resolved it and is about to
\* reset it; the other task submitted first
C12_Witness ==
    \E c \in Player :
        /\ pc[c] = "resolved" /\ running = c
        /\ progressed
        /\ Len(accepted) = 2
        /\ accepted[2].player = c

----------------------------------------------------------------------------
(* C13 *)

\* C13: a session is deleted from SESSIONS when its player set becomes empty
\* and not before, whatever its stage; no identifier is deleted twice and no
\* delete fails; a join with a deleted identifier reports not found.
C13_Registry ==
    /\ \A c \in Player : pc[c] # "KeyError"
    /\ token > 0 => (players = {} <=> token \notin SESSIONS)
    /\ (token > 0 /\ players = {}) => deleted # <<>> /\ Last(deleted) = token
    /\ \A i, j \in DOMAIN deleted : i # j => deleted[i] # deleted[j]
    /\ \A session_id \in SeqToSet(deleted), c \in Player :
          (pc[c] = "connect" /\ running = None) =>
              ENABLED (join(c, session_id) /\ pc'[c] = "notfound")

\* a session deleted while it was forming, and a later connection
C13_Witness ==
    /\ deleted = <<1>> /\ ~started
    /\ \E c \in Player : pc[c] = "notfound"

\* a session deleted in the middle of a game: the players left with cards
C13_WitnessInProgress ==
    /\ deleted = <<1>> /\ token = 1 /\ started
    /\ \A c \in Player : hand[c] # {} /\ pc[c] = "left"

\* a session deleted after its game ended
C13_WitnessEnded ==
    /\ deleted = <<1>> /\ token = 1 /\ started
    /\ \A c \in Player : hand[c] = {} /\ pc[c] = "left"

----------------------------------------------------------------------------
(* C14 *)

\* C14: add fails, changing nothing, when the session is started or holds
\* max_players players, and otherwise inserts the player; the player set never
\* exceeds max_players and no step after start enlarges it.  (players is a
\* set: it holds no duplicate by construction.)
C14_Add ==
    /\ Cardinality(players) <= max_players
    /\ \A player \in Candidate :
          IF started \/ Cardinality(players) >= max_players
          THEN ENABLED (add(player) /\ ret' = "False" /\ players' = players)
          ELSE ENABLED (/\ add(player)
                        /\ ret' = "True"
                        /\ players' = players \cup {player})
    /\ started => ~ENABLED (LobbyNext /\ ~(players' \subseteq players))

\* a full session that has not started, with a player outside it
C14_Witness ==
    /\ ~started
    /\ Cardinality(players) = max_players
    /\ Candidate \ players # {}
    /\ ret = "False"

\* a started session that a player has left: the place is not given away
C14_WitnessStarted ==
    /\ started
    /\ Cardinality(players) < max_players
    /\ ret = "False"

----------------------------------------------------------------------------
(* Calls outside a session in play: Card.score on every card of the deck,
   Board.where on boards of ROWS rows *)

FnInit == Init

ScoreCall ==
    \E value \in 1 .. DeckLast :
        /\ Card_ok(value)
        /\ call' = [fn |-> "score", value |-> value, result |-> score(value)]
        /\ UNCHANGED <<session, ret, server>>

\* Board.where on a board whose rows each end in a card of Tails; two rows may
\* end in equal cards, Card(5) == Card(5), which is how a tie arises
WhereCall ==
    \E tails \in [1 .. ROWS -> Tails], card \in WhereCards :
        LET b == [r \in 1 .. ROWS |-> <<tails[r]>>] IN
        /\ call' = [fn |-> "where", board |-> b, card |-> card,
                    result |-> where(b, card)]
        /\ UNCHANGED <<session, ret, server>>

\* Session(...) with a configuration
SessionCall ==
    \E min_p \in MinChoices, max_p \in MaxChoices,
       cpp \in CppChoices, board_rows \in RowChoices :
        /\ call' = [fn |-> "Session", min_players |-> min_p, max_players |-> max_p,
                    cards_per_player |-> cpp, rows |-> board_rows,
                    result |-> IF Session_post_init(min_p, max_p, cpp, board_rows, DeckLast)
                               THEN "Session" ELSE "AssertionError"]
        /\ UNCHANGED <<session, ret, server>>

\* host with the player counts of the message, the other settings at their
\* defaults, on a registry that holds the sessions of before
HostCall ==
    \E min_p \in MinChoices, max_p \in MaxChoices, before \in SUBSET (1 .. 2) :
        LET constructed ==
                Session_post_init(min_p, max_p, CARDS_PER_PLAYER, ROWS, DeckLast)
        IN  /\ call' = [fn |-> "host", min_players |-> min_p, max_players |-> max_p,
                        cards_per_player |-> CARDS_PER_PLAYER, rows |-> ROWS,
                        result |-> IF constructed THEN "Session" ELSE "AssertionError",
                        before |-> before,
                        after |-> host_register(before, 3, constructed)]
            /\ UNCHANGED <<session, ret, server>>

FnNext ==
    \/ ScoreCall
    \/ WhereCall
    \/ SessionCall
    \/ HostCall

SpecFn == FnInit /\ [][FnNext]_vars

----------------------------------------------------------------------------
(* C17 *)

\* C17: the construction of a Session fails when min_players > max_players or
\* max_players * cards_per_player + rows exceeds 104, and host then leaves the
\* registry as it was: no session and no entry results.
C17_Construct ==
    call.fn \in {"Session", "host"} =>
        /\ (\/ call.min_players > call.max_players
             \/ call.max_players * call.cards_per_player + call.rows > DeckLast)
               => call.result = "AssertionError"
        /\ (call.fn = "host" /\ call.result = "AssertionError")
               => call.after = call.before

\* a configuration that only the deck rules out
C17_Witness ==
    /\ call.fn = "Session"
    /\ call.min_players <= call.max_players /\ call.max_players <= MAX_PLAYERS
    /\ call.max_players * call.cards_per_player + call.rows = DeckLast + 1
    /\ call.result = "AssertionError"

\* host refused a configuration while the registry held other sessions
C17_WitnessHost ==
    /\ call.fn = "host"
    /\ call.min_players > call.max_players
    /\ call.result = "AssertionError"
    /\ call.before # {} /\ call.after = call.before

----------------------------------------------------------------------------
(* C18 *)

\* C18: the score of a card is 7 for 55, else 5 for a multiple of 11, else 3
\* for a multiple of 10, else 2 for a multiple of 5, else 1.
C18_Score ==
    call.fn = "score" =>
        LET v == call.value IN
        /\ v = 55 => call.result = 7
        /\ (v # 55 /\ v % 11 = 0) => call.result = 5
        /\ (v # 55 /\ v % 11 # 0 /\ v % 10 = 0) => call.result = 3
        /\ (v # 55 /\ v % 11 # 0 /\ v % 10 # 0 /\ v % 5 = 0) => call.result = 2
        /\ (v # 55 /\ v % 11 # 0 /\ v % 10 # 0 /\ v % 5 # 0) => call.result = 1

\* the card that is both the special value and a multiple of 11
C18_Witness == call.fn = "score" /\ call.value = 55 /\ call.result = 7

----------------------------------------------------------------------------
(* C20 *)

\* rows of board b, 0-based, whose tail is strictly less than card
Below(b, card) == {i \in 0 .. Len(b) - 1 : Last(b[i + 1]) < card}

\* C20: Board.where returns the row whose tail is strictly less than the card
\* and closest to it, the lowest such row on a tie, and no row of the board
\* when the card is smaller than every tail; on tails 5, 23, 61, 98 card 30
\* goes to row 1 (tail 23) and card 3 has no row.
C20_Where ==
    call.fn = "where" =>
        LET b == call.board
            card == call.card
            r == call.result
        IN  /\ IF Below(b, card) = {}
               THEN r \notin 0 .. Len(b) - 1
               ELSE /\ r \in Below(b, card)
                    /\ \A i \in Below(b, card) :
                          /\ card - Last(b[r + 1]) <= card - Last(b[i + 1])
                          /\ Last(b[i + 1]) = Last(b[r + 1]) => r <= i
            /\ (b = <<<<5>>, <<23>>, <<61>>, <<98>>>> /\ card = 30) => r = 1
            /\ (b = <<<<5>>, <<23>>, <<61>>, <<98>>>> /\ card = 3) =>
                  r \notin 0 .. 3

\* the board of the example with the card below every tail
C20_Witness ==
    /\ call.fn = "where"
    /\ call.board = <<<<5>>, <<23>>, <<61>>, <<98>>>>
    /\ call.card = 3
    /\ call.result = maxsize

\* two rows tie for a card and the lower one is returned
C20_WitnessTie ==
    /\ call.fn = "where"
    /\ call.board = <<<<23>>, <<5>>, <<23>>, <<98>>>>
    /\ call.card = 30
    /\ call.result = 0

----------------------------------------------------------------------------
(* C21 *)

\* the row a card goes to: the explicit one, or the one Board.where finds
C21_Target(b, card, row) == IF row # None THEN row ELSE where(b, card)

\* the row is swept: an explicit row, or a target row that holds cols cards
C21_Sweeps(b, card, row) ==
    row # None \/ Len(b[C21_Target(b, card, row) + 1]) >= cols

\* what place(card, row) returns and leaves on board b
C21_PlaceOk(b, card, row) ==
    LET r   == C21_Target(b, card, row)
        old == b[r + 1]
        p   == place(b, card, row)
    IN  /\ ~p.raised
        /\ \A q \in 0 .. Len(b) - 1 : q # r => p.board[q + 1] = b[q + 1]
        /\ IF C21_Sweeps(b, card, row)
           THEN /\ p.stack = SeqToSet(old)
                /\ p.board[r + 1] = <<card>>
                /\ p.position = [row |-> r, col |-> 0]
           ELSE /\ p.stack = {}
                /\ p.board[r + 1] = Append(old, card)
                /\ p.position = [row |-> r, col |-> Len(old)]

\* the stacks after the cards of items, from the idx-th on, are placed on b
\* one after the other, the first of all on row sel: each player's stack gains
\* the former content of the row when the row is swept, and nothing otherwise
RECURSIVE C21_Stacks(_, _, _, _, _)
C21_Stacks(items, idx, b, st, sel) ==
    IF idx > Len(items) THEN st
    ELSE LET item == items[idx]
             row  == IF idx = 1 THEN sel ELSE None
             r    == C21_Target(b, item.card, row)
         IN  IF C21_Sweeps(b, item.card, row)
             THEN C21_Stacks(items, idx + 1, [b EXCEPT ![r + 1] = <<item.card>>],
                             [st EXCEPT ![item.player] = @ \cup SeqToSet(b[r + 1])], sel)
             ELSE C21_Stacks(items, idx + 1, [b EXCEPT ![r + 1] = Append(@, item.card)],
                             st, sel)

\* place on the board of the session, for every card that is not on it and
\* every row, explicit or not
C21_Board ==
    started =>
        \A card \in DECK \ BoardCards, row \in {None} \cup (0 .. rows - 1) :
            (row # None \/ Below(board, card) # {}) =>
                C21_PlaceOk(board, card, row)

\* a step of progress that resolves the turn
C21_Turn ==
    (~progressed /\ progressed') =>
        stack' = C21_Stacks(sorted(cards_to_play), 1, board, stack, selected_row)

\* C21: place with an explicit row, or on a target row that holds cols cards,
\* returns the whole row as swept, leaves the row as [card] and answers
\* position (row, 0); otherwise it appends the card at (row, previous length)
\* and sweeps nothing; progress adds the swept cards, and only them, to the
\* stack of the player whose card swept them.
C21_Place == []C21_Board /\ [][C21_Turn]_vars

\* a turn was resolved in which a card went to a row that held cols cards:
\* its player took the row
C21_Witness ==
    /\ progressed /\ ret = "True"
    /\ \E i \in DOMAIN cards_played :
          /\ cards_played[i].position.col = 0
          /\ Cardinality(stack[cards_played[i].player]) >= cols

\* a turn was resolved in which a card was appended and its player took nothing
C21_WitnessAppend ==
    /\ progressed /\ ret = "True"
    /\ \E i \in DOMAIN cards_played :
          /\ cards_played[i].position.col > 0
          /\ stack[cards_played[i].player] = {}

----------------------------------------------------------------------------
(* C22 *)

\* C22: once the session has started every row of the board is non-empty,
\* holds at most cols cards and is strictly increasing from first to last.
C22_Rows ==
    started =>
        \A r \in DOMAIN board :
            /\ Len(board[r]) >= 1
            /\ Len(board[r]) <= cols
            /\ \A i, j \in DOMAIN board[r] : i < j => board[r][i] < board[r][j]

\* a board with a full row, after a row was swept into a stack
C22_Witness ==
    /\ started
    /\ \E r \in DOMAIN board : Len(board[r]) = cols
    /\ \E player \in Player : stack[player] # {}

----------------------------------------------------------------------------
(* C23 *)

\* every card of items, from the idx-th on, that is placed without an explicit
\* row finds a row of b with a smaller tail at the moment it is placed, the
\* cards being placed one after the other and the first of all on row sel
RECURSIVE C23_HasRow(_, _, _, _)
C23_HasRow(items, idx, b, sel) ==
    IF idx > Len(items) THEN TRUE
    ELSE LET card == items[idx].card
             row  == IF idx = 1 THEN sel ELSE None
         IN  IF row = None /\ Below(b, card) = {} THEN FALSE
             ELSE /\ row = None => is_valid(where(b, card))
                  /\ C23_HasRow(items, idx + 1, place(b, card, row).board, sel)

\* C23: when progress passes its guard every card it places automatically has
\* a row with a strictly smaller tail at that moment: Board.where does not
\* return sys.maxsize inside progress, place indexes no row outside the board
\* and progress does not raise.
C23_NoSentinel ==
    /\ ret # "IndexError"
    /\ should_progress =>
          /\ C23_HasRow(sorted(cards_to_play), 1, board, selected_row)
          /\ ~resolve(cards_to_play, board, stack, cards_played, selected_row).raised

\* a turn of two cards was resolved, both placed by Board.where
C23_Witness ==
    /\ progressed /\ ret = "True"
    /\ selected_row = None
    /\ Len(cards_played) >= 2

=============================================================================
